---- MODULE Spec2Model ----
(***************************************************************************)
(* Model of dask_gateway/yarn_cluster.py: YarnClusterManager.              *)
(*                                                                         *)
(* The manager runs on one cooperative event loop.  Every `await` on an    *)
(* executor call or on gen.sleep is a suspension point; the code between   *)
(* two suspension points runs without interruption and is one action.      *)
(* The resource manager (skein client) and the scheduler that reports its  *)
(* address are the environment.                                            *)
(***************************************************************************)
EXTENDS Integers, Sequences, FiniteSets, TLC

\* ------------------------------------------------------------------ bounds
MaxCalls == 2        \* start()/is_running()/stop() calls issued in one run
MaxPolls == 2        \* application-report calls one call may issue
ScenarioPolls == 5   \* the same, in the run against the scripted reports

\* ------------------------------------------------------------ the managers
Ctrl == {"c1", "c2"}

None == "None"
Principals == {None, "alice"}
Keytabs == {None, "/etc/gw.keytab"}

EmptyStr == <<>>                      \* the Python string ''
AppIdOf(n) == <<"application", n>>    \* the n-th id handed out by submit
Restored == <<"application", 0>>      \* an id persisted by an earlier process

States == {"SUBMITTED", "ACCEPTED", "RUNNING", "FAILED", "KILLED", "FINISHED"}

VARIABLES
    principal,          \* c -> configured kerberos principal (or None)
    keytab,             \* c -> configured keytab path (or None)
    clients,            \* class attribute: dict (principal, keytab) -> client
    app_id,             \* c -> self.app_id
    scheduler_address,  \* c -> self.scheduler_address
    dashboard_address,  \* c -> self.dashboard_address
    files,              \* the temp directory: dict path -> content
    napps,              \* resource manager: applications submitted so far
    tasks,              \* the coroutines: slot -> frame
    nclients,           \* skein.Client objects constructed so far
    overlapped          \* keys for which two _get_client calls overlapped

vars == <<principal, keytab, clients, app_id, scheduler_address,
          dashboard_address, files, napps, tasks, nclients, overlapped>>

\* ------------------------------------------------------------ pure helpers
Key(c) == <<principal[c], keytab[c]>>

cert_path(c) == <<c, ".crt">>
key_path(c) == <<c, ".pem">>
tls_cert(c) == <<"cert", c>>
tls_key(c) == <<"key", c>>
Partial == <<"partial", "">>
Stale == <<"stale", "">>

Put(d, k, v) == [x \in DOMAIN d \cup {k} |-> IF x = k THEN v ELSE d[x]]
Del(d, k) == [x \in DOMAIN d \ {k} |-> d[x]]

\* ------------------------------------------------ temp_write_credentials
\* os.open(path, O_WRONLY | O_CREAT | O_EXCL, 0o600) refuses an existing path
ExclCreateNoExcl(fs, path) == FALSE      \* flags without O_EXCL
ExclCreate(fs, path) == path \in DOMAIN fs

\* Points at which the operating system may make the acquisition fail
FailPoints == {"none", "cert_open", "cert_write", "key_open", "key_write"}

\* One iteration of the for loop of the try block: open, then write.
\* st is [fs, ok, made]: the directory, whether no error was raised so far,
\* and the paths this acquisition created; an iteration after a raise does
\* not run.
OpenWrite(st, path, data, failOpen, failWrite) ==
    IF ~st.ok THEN st
    ELSE IF ExclCreate(st.fs, path) \/ failOpen
         THEN [st EXCEPT !.ok = FALSE]
    ELSE IF failWrite
         THEN [fs |-> Put(st.fs, path, Partial), ok |-> FALSE,
               made |-> st.made \cup {path}]
    ELSE [fs |-> Put(st.fs, path, data), ok |-> TRUE,
          made |-> st.made \cup {path}]

\* The try block up to the yield: the certificate first, then the key
WriteCreds(fs, c, failAt) ==
    OpenWrite(
        OpenWrite([fs |-> fs, ok |-> TRUE, made |-> {}], cert_path(c), tls_cert(c),
                  failAt = "cert_open", failAt = "cert_write"),
        key_path(c), tls_key(c), failAt = "key_open", failAt = "key_write")

\* The finally block: unlink each of the two paths that exists
CredPaths(c) == {cert_path(c), key_path(c)}
Present(fs, c) == {p \in CredPaths(c) : p \in DOMAIN fs}
Unlink(fs, path) == IF path \in DOMAIN fs THEN Del(fs, path) ELSE fs
CleanupNothing(fs, c) == fs                          \* no finally block
CleanupCertOnly(fs, c) == Unlink(fs, cert_path(c))   \* the key is left behind
Cleanup(fs, c) == Unlink(Unlink(fs, cert_path(c)), key_path(c))

\* ---------------------------------------------------------- start() tests
IsTerminalNoFinished(s) == s \in {"FAILED", "KILLED"}
IsTerminal(s) == s \in {"FAILED", "KILLED", "FINISHED"}
IsRunningStateOrAccepted(s) == s \in {"RUNNING", "ACCEPTED"}
IsRunningState(s) == s = "RUNNING"
AddressEmptyInverted(c) == scheduler_address[c] # ""   \* `while getattr(...)`
AddressEmpty(c) == scheduler_address[c] = ""
IsRunningResultNotFailed(state) == ~(state \in {"FAILED", "KILLED", "FINISHED"})
IsRunningResult(state) == state = "RUNNING"   \* report.state == 'RUNNING'
IsRunningNoAppNever(c) == FALSE          \* the early return is missing
IsRunningNoApp(c) == app_id[c] = EmptyStr
StopNoAppNever(c) == FALSE               \* the early return is missing
StopNoApp(c) == app_id[c] = EmptyStr

\* --------------------------------------------------------------- frames
Slots == 1..MaxCalls
Idle == [op |-> "none", ctrl |-> "none", pc |-> "idle", client |-> 0,
         arg |-> EmptyStr, ret |-> <<>>, err |-> "", err_app |-> EmptyStr,
         saw_running |-> FALSE, saw_terminal |-> FALSE,
         submitted |-> EmptyStr, app_id0 |-> EmptyStr, hit |-> FALSE,
         found |-> {}, made |-> {},
         nconstruct |-> 0, nsubmit |-> 0, nreport |-> 0, nkill |-> 0,
         naddr |-> 0, nreport2 |-> 0]

\* The frame of a call that begins: app_id0 is self.app_id at that moment
Frame(op, c) == [Idle EXCEPT !.op = op, !.ctrl = c, !.app_id0 = app_id[c]]
\* Calls take the slots in order; a call that returned or raised keeps its frame
FreeSlot(t) ==
    /\ t \in Slots
    /\ tasks[t].pc = "idle"
    /\ \A u \in 1..(t - 1) : tasks[u].pc # "idle"

\* ----------------------------------------------------------------- Init
\* Files a crashed earlier process may have left behind in temp_dir
StalePaths == {cert_path("c1"), key_path("c1")}

Init ==
    /\ principal \in [Ctrl -> Principals]
    /\ keytab \in [Ctrl -> Keytabs]
    /\ principal["c1"] = None /\ keytab["c1"] = None
    /\ clients = <<>>
    /\ app_id \in [Ctrl -> {EmptyStr, Restored}]
    /\ app_id["c1"] = EmptyStr
    /\ scheduler_address = [c \in Ctrl |-> ""]
    /\ dashboard_address = [c \in Ctrl |-> ""]
    /\ \E S \in SUBSET StalePaths : files = [p \in S |-> Stale]
    /\ napps = 0
    /\ tasks = [t \in Slots |-> Idle]
    /\ nclients = 0
    /\ overlapped = {}

\* ---------------------------------------- the code after `await _get_client()`
\* start(), lines 244-246: enter the credential scope, build the spec and
\* hand submit to the executor; a raise inside the try block runs the finally
StartBody(t, fr, failAt) ==
    LET c == fr.ctrl
        w == WriteCreds(files, c, failAt)
        in == [fr EXCEPT !.found = Present(files, c), !.made = w.made]
    IN  IF w.ok
        THEN /\ files' = w.fs
             /\ tasks' = [tasks EXCEPT ![t] =
                    [in EXCEPT !.pc = "submit", !.nsubmit = @ + 1]]
        ELSE /\ files' = Cleanup(w.fs, c)
             /\ tasks' = [tasks EXCEPT ![t] =
                    [in EXCEPT !.pc = "failed", !.err = "credentials"]]

\* is_running(), lines 282-284: hand application_report(self.app_id) to the executor
IsRunningBody(t, fr) ==
    /\ tasks' = [tasks EXCEPT ![t] =
           [fr EXCEPT !.pc = "report", !.arg = app_id[fr.ctrl], !.nreport = @ + 1]]
    /\ UNCHANGED files

\* (a variant that kills the id it found when it was called)
StopBodyStaleId(t, fr) ==
    /\ tasks' = [tasks EXCEPT ![t] =
           [fr EXCEPT !.pc = "kill", !.arg = fr.app_id0, !.nkill = @ + 1]]
    /\ UNCHANGED files

\* (a variant that asks for the application's state before it kills)
StopBodyAsksFirst(t, fr) ==
    /\ tasks' = [tasks EXCEPT ![t] =
           [fr EXCEPT !.pc = "report", !.arg = app_id[fr.ctrl], !.nreport = @ + 1]]
    /\ UNCHANGED files

\* stop(), lines 292-294: hand kill_application(self.app_id) to the executor
StopBody(t, fr) ==
    /\ tasks' = [tasks EXCEPT ![t] =
           [fr EXCEPT !.pc = "kill", !.arg = app_id[fr.ctrl], !.nkill = @ + 1]]
    /\ UNCHANGED files

Body(t, fr, failAt) ==
    CASE fr.op = "start" -> StartBody(t, fr, failAt)
      [] fr.op = "is_running" -> IsRunningBody(t, fr)
      [] fr.op = "stop" -> StopBody(t, fr)

\* ------------------------------------------------------------ _get_client
\* type(self).clients.get(key) is None
CacheMissAlways(k) == TRUE               \* the cache is never consulted
CacheMiss(k) == k \notin DOMAIN clients

Constructing(k) ==
    \E u \in Slots : tasks[u].pc = "construct" /\ Key(tasks[u].ctrl) = k

\* lines 138-146: look the key up; a hit returns at once and the caller goes
\* on, a miss hands skein.Client(...) to the executor and suspends
GetClient(t, fr, failAt) ==
    LET k == Key(fr.ctrl)
    IN  IF CacheMiss(k)
        THEN /\ tasks' = [tasks EXCEPT ![t] =
                    [fr EXCEPT !.pc = "construct", !.nconstruct = @ + 1,
                               !.hit = k \in DOMAIN clients]]
             /\ overlapped' = IF Constructing(k) THEN overlapped \cup {k}
                              ELSE overlapped
             /\ UNCHANGED <<clients, nclients, files>>
        ELSE /\ Body(t, [fr EXCEPT !.client = clients[k], !.hit = TRUE], failAt)
             /\ UNCHANGED <<clients, nclients, overlapped>>

\* lines 144-148: the executor returns the new client; store it, return it
ConstructDone(t) ==
    /\ tasks[t].pc = "construct"
    /\ \E failAt \in FailPoints :
        LET h == nclients + 1
            k == Key(tasks[t].ctrl)
        IN  /\ nclients' = h
            /\ clients' = Put(clients, k, h)
            /\ Body(t, [tasks[t] EXCEPT !.client = h], failAt)
    /\ UNCHANGED <<principal, keytab, app_id, scheduler_address,
                   dashboard_address, napps, overlapped>>

\* skein.Client(...) raises: the error leaves _get_client and the caller
ConstructFail(t) ==
    /\ tasks[t].pc = "construct"
    /\ tasks' = [tasks EXCEPT ![t].pc = "failed", ![t].err = "client"]
    /\ UNCHANGED <<principal, keytab, clients, app_id, scheduler_address,
                   dashboard_address, files, napps, nclients, overlapped>>

\* ------------------------------------------------------------- the calls
StartCall(c) ==
    /\ \E t \in Slots, failAt \in FailPoints :
        FreeSlot(t) /\ GetClient(t, Frame("start", c), failAt)
    /\ UNCHANGED <<principal, keytab, app_id, scheduler_address,
                   dashboard_address, napps>>

IsRunningCall(c) ==
    /\ \E t \in Slots :
        /\ FreeSlot(t)
        /\ IF IsRunningNoApp(c)
           THEN /\ tasks' = [tasks EXCEPT ![t] =
                       [Frame("is_running", c) EXCEPT !.pc = "done", !.ret = <<FALSE>>]]
                /\ UNCHANGED <<clients, nclients, overlapped, files>>
           ELSE GetClient(t, Frame("is_running", c), "none")
    /\ UNCHANGED <<principal, keytab, app_id, scheduler_address,
                   dashboard_address, napps>>

StopCall(c) ==
    /\ \E t \in Slots :
        /\ FreeSlot(t)
        /\ IF StopNoApp(c)
           THEN /\ tasks' = [tasks EXCEPT ![t] =
                       [Frame("stop", c) EXCEPT !.pc = "done"]]
                /\ UNCHANGED <<clients, nclients, overlapped, files>>
           ELSE GetClient(t, Frame("stop", c), "none")
    /\ UNCHANGED <<principal, keytab, app_id, scheduler_address,
                   dashboard_address, napps>>

\* ------------------------------------------------------- start(), the rest
EnvUnchanged == UNCHANGED <<principal, keytab, clients, scheduler_address,
                            dashboard_address, nclients, overlapped>>

\* (a variant that reads the id to poll before it stores the new one)
SubmitDonePollsOld(t) ==
    /\ tasks[t].pc = "submit"
    /\ LET c == tasks[t].ctrl
           a == AppIdOf(napps + 1)
       IN  /\ napps' = napps + 1
           /\ app_id' = [app_id EXCEPT ![c] = a]
           /\ files' = Cleanup(files, c)
           /\ tasks' = [tasks EXCEPT ![t] =
                  [@ EXCEPT !.pc = "poll1", !.submitted = a, !.arg = app_id[c],
                            !.nreport = @ + 1]]
    /\ EnvUnchanged

\* line 246 and 250-252: submit returned an id; store it, leave the
\* credential scope, hand the first application_report to the executor
SubmitDone(t) ==
    /\ tasks[t].pc = "submit"
    /\ LET c == tasks[t].ctrl
           a == AppIdOf(napps + 1)
       IN  /\ napps' = napps + 1
           /\ app_id' = [app_id EXCEPT ![c] = a]
           /\ files' = Cleanup(files, c)
           /\ tasks' = [tasks EXCEPT ![t] =
                  [@ EXCEPT !.pc = "poll1", !.submitted = a, !.arg = a,
                            !.nreport = @ + 1]]
    /\ EnvUnchanged

\* (a variant that submits once more before giving up)
SubmitFailRetry(t) ==
    /\ tasks[t].pc = "submit"
    /\ IF tasks[t].nsubmit < 2
       THEN /\ tasks' = [tasks EXCEPT ![t].nsubmit = @ + 1, ![t].err = "submit"]
            /\ UNCHANGED files
       ELSE /\ tasks' = [tasks EXCEPT ![t].pc = "failed", ![t].err = "submit"]
            /\ files' = Cleanup(files, tasks[t].ctrl)
    /\ UNCHANGED <<principal, keytab, clients, app_id, scheduler_address,
                   dashboard_address, napps, nclients, overlapped>>

\* line 246: client.submit raises; the error leaves the with block and start()
SubmitFail(t) ==
    /\ tasks[t].pc = "submit"
    /\ files' = Cleanup(files, tasks[t].ctrl)
    /\ tasks' = [tasks EXCEPT ![t].pc = "failed", ![t].err = "submit"]
    /\ UNCHANGED <<app_id, napps>>
    /\ EnvUnchanged

\* lines 255-257 and 271-273: the raise; the message holds self.app_id
Terminated(fr) ==
    [fr EXCEPT !.pc = "failed", !.err = "terminated",
               !.err_app = app_id[fr.ctrl]]

\* The address checks made so far, this one included; they are counted as
\* long as the reports are (a start() has issued a report before each check)
Checked(fr) == IF fr.naddr < fr.nreport THEN fr.naddr + 1 ELSE fr.naddr

\* (a variant whose second loop never ends on the address)
AddressWaitNoReturn(fr) == [fr EXCEPT !.pc = "sleep2", !.naddr = Checked(fr)]

\* lines 264-265 and 275: the test of the second loop, then sleep or return
AddressWait(fr) ==
    IF AddressEmpty(fr.ctrl)
    THEN [fr EXCEPT !.pc = "sleep2", !.naddr = Checked(fr)]
    ELSE [fr EXCEPT !.pc = "done", !.naddr = Checked(fr),
                    !.ret = <<scheduler_address[fr.ctrl],
                              dashboard_address[fr.ctrl]>>]

\* The resource manager's final states
RMFinal == {"FAILED", "KILLED", "FINISHED"}

\* What the reports received by a start() have shown so far
Seen(fr, state) ==
    [fr EXCEPT !.saw_running = @ \/ state = "RUNNING",
               !.saw_terminal = @ \/ state \in RMFinal]

\* lines 253-261: a report of the first loop arrives
StartReport1(t, state) ==
    /\ tasks[t].pc = "poll1"
    /\ LET fr == Seen(tasks[t], state)
       IN  tasks' = [tasks EXCEPT ![t] =
               IF IsTerminal(state) THEN Terminated(fr)
               ELSE IF IsRunningState(state) THEN AddressWait(fr)
               ELSE [fr EXCEPT !.pc = "sleep1"]]
    /\ UNCHANGED <<app_id, files, napps>>
    /\ EnvUnchanged

\* lines 261 and 250-252: the sleep ends; poll self.app_id again
Sleep1(t, cap) ==
    /\ tasks[t].pc = "sleep1"
    /\ tasks[t].nreport < cap
    /\ tasks' = [tasks EXCEPT ![t] =
           [@ EXCEPT !.pc = "poll1", !.arg = app_id[tasks[t].ctrl],
                     !.nreport = @ + 1]]
    /\ UNCHANGED <<app_id, files, napps>>
    /\ EnvUnchanged

Sleep1Done(t) == Sleep1(t, MaxPolls)

\* lines 265-269: the sleep of the second loop ends; poll self.app_id
Sleep2(t, cap) ==
    /\ tasks[t].pc = "sleep2"
    /\ tasks[t].nreport < cap
    /\ tasks' = [tasks EXCEPT ![t] =
           [@ EXCEPT !.pc = "poll2", !.arg = app_id[tasks[t].ctrl],
                     !.nreport = @ + 1, !.nreport2 = @ + 1]]
    /\ UNCHANGED <<app_id, files, napps>>
    /\ EnvUnchanged

Sleep2Done(t) == Sleep2(t, MaxPolls)

\* (a variant that relies on the RUNNING seen by the first loop)
StartReport2Reuses(t, state) ==
    /\ tasks[t].pc = "poll2"
    /\ tasks' = [tasks EXCEPT ![t] = AddressWait(Seen(tasks[t], state))]
    /\ UNCHANGED <<app_id, files, napps>>
    /\ EnvUnchanged

\* lines 270-273, 264, 275: a report of the second loop arrives
StartReport2(t, state) ==
    /\ tasks[t].pc = "poll2"
    /\ LET fr == Seen(tasks[t], state)
       IN  tasks' = [tasks EXCEPT ![t] =
               IF IsTerminal(state) THEN Terminated(fr) ELSE AddressWait(fr)]
    /\ UNCHANGED <<app_id, files, napps>>
    /\ EnvUnchanged

\* client.application_report raises: nothing catches it in start() or is_running()
ReportFail(t) ==
    /\ tasks[t].pc \in {"poll1", "poll2", "report"}
    /\ tasks' = [tasks EXCEPT ![t].pc = "failed", ![t].err = "report"]
    /\ UNCHANGED <<app_id, files, napps>>
    /\ EnvUnchanged

\* A pending start() is cancelled at the await it is suspended on; inside
\* the with block the finally of temp_write_credentials runs
SuspendedStart == {"construct", "submit", "poll1", "sleep1", "sleep2", "poll2"}

Cancel(t) ==
    /\ tasks[t].op = "start"
    /\ tasks[t].pc \in SuspendedStart
    /\ files' = IF tasks[t].pc = "submit" THEN Cleanup(files, tasks[t].ctrl)
                ELSE files
    /\ tasks' = [tasks EXCEPT ![t].pc = "cancelled"]
    /\ UNCHANGED <<app_id, napps>>
    /\ EnvUnchanged

\* ------------------------------------------------- is_running() and stop()
\* line 285: return report.state == 'RUNNING'
IsRunningReport(t, state) ==
    /\ tasks[t].pc = "report"
    /\ tasks' = [tasks EXCEPT ![t] =
           [@ EXCEPT !.pc = "done", !.saw_running = state = "RUNNING",
                     !.ret = <<IsRunningResult(state)>>]]
    /\ UNCHANGED <<app_id, files, napps>>
    /\ EnvUnchanged

\* lines 292-294: kill_application returns
KillDone(t) ==
    /\ tasks[t].pc = "kill"
    /\ tasks' = [tasks EXCEPT ![t].pc = "done"]
    /\ UNCHANGED <<app_id, files, napps>>
    /\ EnvUnchanged

\* line 294: kill_application raises; nothing catches it in stop()
KillFail(t) ==
    /\ tasks[t].pc = "kill"
    /\ tasks' = [tasks EXCEPT ![t].pc = "failed", ![t].err = "kill"]
    /\ UNCHANGED <<app_id, files, napps>>
    /\ EnvUnchanged

\* ------------------------------------------------------- the environment
\* The scheduler reports in: the gateway sets both addresses of the cluster
SetAddress(c, dash) ==
    /\ scheduler_address[c] = ""
    /\ app_id[c] # EmptyStr
    /\ scheduler_address' = [scheduler_address EXCEPT ![c] = "tls://scheduler"]
    /\ dashboard_address' = [dashboard_address EXCEPT ![c] = dash]
    /\ UNCHANGED <<principal, keytab, clients, app_id, files, napps,
                   tasks, nclients, overlapped>>

Next ==
    \/ \E c \in Ctrl : StartCall(c)
    \/ \E c \in Ctrl : IsRunningCall(c)
    \/ \E c \in Ctrl : StopCall(c)
    \/ \E t \in Slots : ConstructDone(t)
    \/ \E t \in Slots : ConstructFail(t)
    \/ \E t \in Slots : SubmitDone(t)
    \/ \E t \in Slots : SubmitFail(t)
    \/ \E t \in Slots, state \in States : StartReport1(t, state)
    \/ \E t \in Slots : Sleep1Done(t)
    \/ \E t \in Slots : Sleep2Done(t)
    \/ \E t \in Slots, state \in States : StartReport2(t, state)
    \/ \E t \in Slots : ReportFail(t)
    \/ \E t \in Slots : Cancel(t)
    \/ \E t \in Slots, state \in States : IsRunningReport(t, state)
    \/ \E t \in Slots : KillDone(t)
    \/ \E t \in Slots : KillFail(t)
    \/ \E c \in Ctrl : SetAddress(c, "http://dashboard")

Spec == Init /\ [][Next]_vars

\* ------------------------------------------ a run against scripted reports
\* The reports the resource manager gives to a start(): ACCEPTED, ACCEPTED,
\* RUNNING to its first three polls, any state to the polls after them
ScenarioA == <<"ACCEPTED", "ACCEPTED", "RUNNING">>

Answer(t) ==
    IF tasks[t].op = "start" /\ tasks[t].nreport \in 1..Len(ScenarioA)
    THEN {ScenarioA[tasks[t].nreport]}
    ELSE States

\* A gateway with the default configuration and an empty temp directory
InitA ==
    /\ Init
    /\ principal = [c \in Ctrl |-> None]
    /\ keytab = [c \in Ctrl |-> None]
    /\ app_id = [c \in Ctrl |-> EmptyStr]
    /\ files = <<>>

NextA ==
    \/ \E c \in Ctrl : StartCall(c)
    \/ \E c \in Ctrl : IsRunningCall(c)
    \/ \E c \in Ctrl : StopCall(c)
    \/ \E t \in Slots : ConstructDone(t)
    \/ \E t \in Slots : ConstructFail(t)
    \/ \E t \in Slots : SubmitDone(t)
    \/ \E t \in Slots : SubmitFail(t)
    \/ \E t \in Slots : \E state \in Answer(t) : StartReport1(t, state)
    \/ \E t \in Slots : Sleep1(t, ScenarioPolls)
    \/ \E t \in Slots : Sleep2(t, ScenarioPolls)
    \/ \E t \in Slots : \E state \in Answer(t) : StartReport2(t, state)
    \/ \E t \in Slots : ReportFail(t)
    \/ \E t \in Slots : Cancel(t)
    \/ \E t \in Slots, state \in States : IsRunningReport(t, state)
    \/ \E t \in Slots : KillDone(t)
    \/ \E t \in Slots : KillFail(t)
    \/ \E c \in Ctrl : SetAddress(c, "http://dashboard")

SpecA == InitA /\ [][NextA]_vars

\* ---------------------------------------------- a run of unbounded polling
\* The polls beyond the MaxPolls that a frame counts: the loops go on, the
\* counters stay
Sleep1Over(t) ==
    /\ tasks[t].pc = "sleep1"
    /\ tasks[t].nreport >= MaxPolls
    /\ tasks' = [tasks EXCEPT ![t].pc = "poll1",
                              ![t].arg = app_id[tasks[t].ctrl]]
    /\ UNCHANGED <<app_id, files, napps>>
    /\ EnvUnchanged

Sleep2Over(t) ==
    /\ tasks[t].pc = "sleep2"
    /\ tasks[t].nreport >= MaxPolls
    /\ tasks' = [tasks EXCEPT ![t].pc = "poll2",
                              ![t].arg = app_id[tasks[t].ctrl]]
    /\ UNCHANGED <<app_id, files, napps>>
    /\ EnvUnchanged

NextLive ==
    \/ Next
    \/ \E t \in Slots : Sleep1Over(t)
    \/ \E t \in Slots : Sleep2Over(t)

\* The event loop runs what is ready: the timer of a gen.sleep fires, and
\* an application_report handed to the executor returns or raises
Wake(t) == Sleep1Done(t) \/ Sleep1Over(t) \/ Sleep2Done(t) \/ Sleep2Over(t)
Respond(t) ==
    \/ \E state \in States : StartReport1(t, state)
    \/ \E state \in States : StartReport2(t, state)
    \/ ReportFail(t)

Fairness == \A t \in Slots : WF_vars(Wake(t)) /\ WF_vars(Respond(t))

SpecLive == InitA /\ [][NextLive]_vars /\ Fairness

\* ====================================================================
\* Properties
\* ====================================================================
IsStart(t) == tasks[t].op = "start"
NoCredFile(c) == Present(files, c) = {}

\* t is the only start() that was issued on its manager
SoleStart(t) ==
    \A u \in Slots \ {t} :
        ~(tasks[u].op = "start" /\ tasks[u].ctrl = tasks[t].ctrl)

\* C1: start() returns (reaches Running) only if the scheduler address it
\* reads at the return is non-empty and one of the reports it received had
\* state RUNNING, whatever the reports and whenever the address is set.
C1_RunningNeedsAddress ==
    \A t \in Slots :
        (IsStart(t) /\ tasks[t].pc = "done") =>
            /\ tasks[t].ret[1] # ""
            /\ scheduler_address[tasks[t].ctrl] # ""
            /\ tasks[t].saw_running

\* a start() returned after waiting for the address in the second loop
C1_Witness ==
    \E t \in Slots :
        /\ IsStart(t) /\ tasks[t].pc = "done"
        /\ tasks[t].naddr = 2 /\ tasks[t].nreport = 2

\* C2: a start() that receives a report with state FAILED, KILLED or
\* FINISHED has failed with the terminated error and is never again polling,
\* sleeping or submitting: it submitted once, and where it is the only
\* start() of its manager the error names the id its submit returned,
\* app_id is that id and no credential file of the manager is on disk.
C2_TerminalReportFails ==
    \A t \in Slots :
        (IsStart(t) /\ tasks[t].saw_terminal) =>
            /\ tasks[t].pc = "failed" /\ tasks[t].err = "terminated"
            /\ tasks[t].nsubmit = 1
            /\ tasks[t].submitted # EmptyStr
            /\ SoleStart(t) =>
                /\ tasks[t].err_app = tasks[t].submitted
                /\ app_id[tasks[t].ctrl] = tasks[t].submitted
                /\ NoCredFile(tasks[t].ctrl)

\* the sole start() of a manager failed on its second report
C2_Witness ==
    \E t \in Slots :
        /\ IsStart(t) /\ tasks[t].saw_terminal /\ SoleStart(t)
        /\ tasks[t].nreport = 2
        /\ tasks[t].err_app = tasks[t].submitted

\* C3: a start() whose submit raised has failed with that error after one
\* submission and without any report poll; where it is the only start() of
\* a manager whose app_id was empty, app_id is still empty and no
\* credential file of the manager is on disk.
C3_SubmitErrorFails ==
    \A t \in Slots :
        (IsStart(t) /\ tasks[t].err = "submit") =>
            /\ tasks[t].pc = "failed"
            /\ tasks[t].nsubmit = 1
            /\ tasks[t].nreport = 0
            /\ tasks[t].submitted = EmptyStr
            /\ SoleStart(t) =>
                /\ NoCredFile(tasks[t].ctrl)
                /\ tasks[t].app_id0 = EmptyStr => app_id[tasks[t].ctrl] = EmptyStr

C3_Witness ==
    \E t \in Slots :
        /\ IsStart(t) /\ tasks[t].err = "submit" /\ SoleStart(t)
        /\ tasks[t].app_id0 = EmptyStr
        /\ tasks[t].made = CredPaths(tasks[t].ctrl)

\* The credential scope of a start(): entered and left in one step when the
\* acquisition fails, otherwise held while the start() waits for submit
InScope(t) == tasks[t].pc = "submit"
LeavesScope(t) ==
    \/ InScope(t) /\ ~InScope(t)'
    \/ tasks[t].err # "credentials" /\ tasks'[t].err = "credentials"

NoCredFileAfter(c) == Present(files', c) = {}

\* C4: the step in which a start() leaves the credential scope ends with
\* neither the certificate nor the key file of its manager on disk: the
\* scope is left when submit returns, when submit raises, when the start()
\* is cancelled while it waits for submit, and when the acquisition itself
\* fails (then the scope is entered and left in the same step).
C4_ScopeExitRemovesFiles ==
    [][\A t \in Slots : LeavesScope(t) => NoCredFileAfter(tasks'[t].ctrl)]_vars

\* an acquisition failed on the key after it had created the certificate,
\* and a start() was cancelled inside the scope; no file is left
C4_Witness ==
    /\ \E t \in Slots :
        /\ tasks[t].err = "credentials"
        /\ tasks[t].made = {cert_path(tasks[t].ctrl)}
        /\ NoCredFile(tasks[t].ctrl)
    /\ \E t \in Slots :
        /\ tasks[t].pc = "cancelled" /\ tasks[t].nsubmit = 1
        /\ tasks[t].nreport = 0
        /\ NoCredFile(tasks[t].ctrl)

\* What holds of a start() that found a file at one of its two paths
C5_State ==
    \A t \in Slots :
        (IsStart(t) /\ tasks[t].found # {}) =>
            /\ tasks[t].pc = "failed" /\ tasks[t].err = "credentials"
            /\ tasks[t].made \cap tasks[t].found = {}
            /\ tasks[t].nsubmit = 0
            /\ tasks[t].submitted = EmptyStr
            /\ (SoleStart(t) /\ tasks[t].app_id0 = EmptyStr) =>
                   app_id[tasks[t].ctrl] = EmptyStr

\* No step changes the content of a file that stays on disk
C5_Step ==
    \A p \in DOMAIN files \cap DOMAIN files' : files'[p] = files[p]

\* C5: a start() that finds a file at the certificate or the key path when
\* it enters the credential scope fails in the acquisition: it created no
\* file at a path that existed, it never submits, and where it is the only
\* start() of a manager whose app_id was empty, app_id is still empty; no
\* step changes the content of a file that stays on disk.
C5_ExistingFileFailsStart == []C5_State /\ [][C5_Step]_vars

\* the key file existed, the certificate did not: the acquisition created
\* the certificate and then failed
C5_Witness ==
    \E t \in Slots :
        /\ IsStart(t) /\ tasks[t].found = {key_path(tasks[t].ctrl)}
        /\ tasks[t].made = {cert_path(tasks[t].ctrl)}
        /\ tasks[t].pc = "failed"
        /\ tasks[t].app_id0 = EmptyStr

\* ------------------------------------------------------------ _get_client
Returned(t) == tasks[t].client # 0
KeyOf(t) == Key(tasks[t].ctrl)

\* C6: whatever the interleaving of the _get_client calls, two calls of
\* the same identity that have returned hold the same client.
C6_OneHandlePerIdentity ==
    \A t, u \in Slots :
        (Returned(t) /\ Returned(u) /\ KeyOf(t) = KeyOf(u)) =>
            tasks[t].client = tasks[u].client

\* The clients held by the calls that have returned
C7_State ==
    /\ \A t, u \in Slots :
        (Returned(t) /\ Returned(u)) =>
            /\ KeyOf(t) # KeyOf(u) => tasks[t].client # tasks[u].client
            /\ (KeyOf(t) = KeyOf(u) /\ KeyOf(t) \notin overlapped) =>
                   tasks[t].client = tasks[u].client
    /\ \A t \in Slots : tasks[t].hit => tasks[t].nconstruct = 0

\* The pool keeps its entries
C7_Step ==
    \A k \in DOMAIN clients :
        /\ k \in DOMAIN clients'
        /\ k \notin overlapped' => clients'[k] = clients[k]

\* C7: for _get_client calls that do not overlap, two calls hold the same
\* client exactly if their (principal, keytab) pairs are equal; a call that
\* finds its identity in the pool constructs nothing, and no step removes
\* an entry of the pool or replaces its client.
C7_SameHandleIffSameIdentity == []C7_State /\ [][C7_Step]_vars

\* two managers that both use the ambient identity (None, None): the
\* second call found the first call's client in the pool
C7_Witness ==
    \E t, u \in Slots :
        /\ Returned(t) /\ Returned(u)
        /\ tasks[t].ctrl # tasks[u].ctrl
        /\ KeyOf(t) = <<None, None>> /\ KeyOf(u) = <<None, None>>
        /\ tasks[t].nconstruct = 1 /\ tasks[u].hit
        /\ tasks[t].client = tasks[u].client

\* ------------------------------------------------------------------ app_id
\* C8: once app_id of a manager is non-empty no step changes it, whatever
\* start(), is_running() and stop() calls are issued on the manager.
C8_AppIdSetOnce ==
    [][\A c \in Ctrl : app_id[c] # EmptyStr => app_id'[c] = app_id[c]]_vars

\* The step in which a call begins
Begins(t, op) == tasks[t].pc = "idle" /\ tasks'[t].op = op

\* An is_running() that found app_id empty
C9_State ==
    \A t \in Slots :
        (tasks[t].op = "is_running" /\ tasks[t].app_id0 = EmptyStr) =>
            /\ tasks[t].pc = "done" /\ tasks[t].ret = <<FALSE>>
            /\ tasks[t].client = 0 /\ tasks[t].nconstruct = 0
            /\ tasks[t].nreport = 0 /\ tasks[t].nkill = 0
            /\ tasks[t].nsubmit = 0

C9_Step ==
    \A t \in Slots :
        (Begins(t, "is_running") /\ tasks'[t].app_id0 = EmptyStr) =>
            UNCHANGED <<clients, nclients, napps>>

\* C9: is_running() on a manager whose app_id is empty returns False in the
\* step of the call, without looking a client up or constructing one and
\* without an application report.
C9_IsRunningWithoutAppId == []C9_State /\ [][C9_Step]_vars

\* is_running() answered False while the start() of the same manager had
\* not yet stored an id
C9_Witness ==
    \E t, u \in Slots :
        /\ tasks[t].op = "is_running" /\ tasks[t].app_id0 = EmptyStr
        /\ tasks[t].pc = "done"
        /\ IsStart(u) /\ tasks[u].ctrl = tasks[t].ctrl /\ tasks[u].pc = "submit"

\* A stop() that found app_id empty
C10_State ==
    \A t \in Slots :
        (tasks[t].op = "stop" /\ tasks[t].app_id0 = EmptyStr) =>
            /\ tasks[t].pc = "done"
            /\ tasks[t].client = 0 /\ tasks[t].nconstruct = 0
            /\ tasks[t].nkill = 0 /\ tasks[t].nreport = 0
            /\ tasks[t].nsubmit = 0

C10_Step ==
    \A t \in Slots :
        (Begins(t, "stop") /\ tasks'[t].app_id0 = EmptyStr) =>
            /\ UNCHANGED <<principal, keytab, clients, app_id,
                           scheduler_address, dashboard_address, files,
                           napps, nclients, overlapped>>
            /\ \A u \in Slots \ {t} : tasks'[u] = tasks[u]

\* C10: stop() on a manager whose app_id is empty returns in the step of
\* the call and changes nothing: no client is looked up or constructed, no
\* kill is requested, and every attribute, the pool, the files and the
\* other calls in flight are as before.
C10_StopWithoutAppId == []C10_State /\ [][C10_Step]_vars

\* stop() returned at once while the start() of the same manager was
\* waiting for its client
C10_Witness ==
    \E t, u \in Slots :
        /\ tasks[t].op = "stop" /\ tasks[t].app_id0 = EmptyStr
        /\ tasks[t].pc = "done"
        /\ IsStart(u) /\ tasks[u].ctrl = tasks[t].ctrl
        /\ tasks[u].pc = "construct"

\* ------------------------------------------------- is_running() and stop()
IsIsRunning(t) == tasks[t].op = "is_running"
IsStop(t) == tasks[t].op = "stop"

\* The step is a step of the call in slot t
StepOf(t) == tasks'[t] # tasks[t]

\* An is_running() that found app_id set and has returned
C11_State ==
    \A t \in Slots :
        (IsIsRunning(t) /\ tasks[t].app_id0 # EmptyStr /\ tasks[t].pc = "done") =>
            /\ tasks[t].ret = <<tasks[t].saw_running>>
            /\ tasks[t].nreport = 1
            /\ tasks[t].nkill = 0 /\ tasks[t].nsubmit = 0

\* What the steps of an is_running() leave alone
C11_Step ==
    \A t \in Slots :
        (StepOf(t) /\ tasks'[t].op = "is_running") =>
            /\ UNCHANGED <<app_id, scheduler_address, dashboard_address,
                           files, napps>>
            /\ \A u \in Slots \ {t} : tasks'[u] = tasks[u]

\* C11: an is_running() that found app_id set returns True exactly if the
\* one report it fetched had state RUNNING, and none of its steps changes
\* app_id, either address, or the frame of another call, so a start() in
\* flight is where it was.
C11_IsRunningReadsReport == []C11_State /\ [][C11_Step]_vars

\* is_running() answered True while the start() of the same manager was
\* waiting for the scheduler address
C11_Witness ==
    \E t, u \in Slots :
        /\ IsIsRunning(t) /\ tasks[t].app_id0 # EmptyStr
        /\ tasks[t].pc = "done" /\ tasks[t].ret = <<TRUE>>
        /\ IsStart(u) /\ tasks[u].ctrl = tasks[t].ctrl
        /\ tasks[u].pc = "sleep2"
        /\ tasks[t].arg = tasks[u].submitted

\* No start() was issued on manager c
NoStart(c) == \A u \in Slots : ~(IsStart(u) /\ tasks[u].ctrl = c)

\* C12: a stop() that found app_id set asks for no report and submits
\* nothing; once it has its client it has requested exactly one kill, of a
\* non-empty id, and it fails only if the client construction or the kill
\* itself raised; where no start() runs on the manager, app_id is still the
\* id the stop() found and the kill names that id, so two stop() calls
\* request two kills of the same id.
C12_StopKillsOnce ==
    \A t \in Slots :
        (IsStop(t) /\ tasks[t].app_id0 # EmptyStr) =>
            /\ tasks[t].nreport = 0 /\ tasks[t].nsubmit = 0
            /\ tasks[t].pc \in {"construct", "kill", "done", "failed"}
            /\ tasks[t].pc \in {"kill", "done"} =>
                   tasks[t].nkill = 1 /\ tasks[t].arg # EmptyStr
            /\ tasks[t].pc = "construct" => tasks[t].nkill = 0
            /\ tasks[t].pc = "failed" =>
                   \/ tasks[t].err = "client" /\ tasks[t].nkill = 0
                   \/ tasks[t].err = "kill" /\ tasks[t].nkill = 1
            /\ NoStart(tasks[t].ctrl) =>
                   /\ app_id[tasks[t].ctrl] = tasks[t].app_id0
                   /\ tasks[t].nkill = 1 => tasks[t].arg = tasks[t].app_id0

\* two stop() calls on a manager whose id was restored have both returned:
\* each requested one kill of that id, the second with the pooled client
C12_Witness ==
    \E t, u \in Slots :
        /\ t < u /\ IsStop(t) /\ IsStop(u)
        /\ tasks[t].ctrl = tasks[u].ctrl
        /\ tasks[t].pc = "done" /\ tasks[u].pc = "done"
        /\ tasks[t].nkill = 1 /\ tasks[u].nkill = 1
        /\ tasks[t].arg = Restored /\ tasks[u].arg = Restored
        /\ tasks[u].hit
        /\ app_id[tasks[t].ctrl] = Restored

\* ------------------------------------------------------ start(), the polls
Polling == {"poll1", "sleep1", "poll2", "sleep2"}

\* C13: a start() that has issued a report poll had stored the id returned
\* by its one submit before; a start() that has issued none is not in a
\* polling loop and has not returned; and where the start() is the only
\* one of its manager, the poll it issued last queries the id its submit
\* returned, which is the manager's app_id.
C13_PollsSubmittedId ==
    \A t \in Slots :
        IsStart(t) =>
            /\ tasks[t].nreport >= 1 =>
                /\ tasks[t].nsubmit = 1
                /\ tasks[t].submitted # EmptyStr
                /\ tasks[t].submitted # tasks[t].app_id0
                /\ tasks[t].arg # EmptyStr
                /\ SoleStart(t) =>
                    /\ tasks[t].arg = tasks[t].submitted
                    /\ app_id[tasks[t].ctrl] = tasks[t].submitted
            /\ tasks[t].nreport = 0 =>
                /\ tasks[t].pc \notin Polling \cup {"done"}
                /\ tasks[t].arg = EmptyStr

\* the only start() of a manager has issued its second poll, for the id
\* its submit returned
C13_Witness ==
    \E t \in Slots :
        /\ IsStart(t) /\ SoleStart(t)
        /\ tasks[t].nreport = 2 /\ tasks[t].pc \in {"poll1", "poll2"}
        /\ tasks[t].arg = tasks[t].submitted
        /\ tasks[t].submitted = AppIdOf(1)

\* ------------------------------------------------- the credential files
\* The start() has entered the credential scope
Entered(t) == tasks[t].nsubmit >= 1 \/ tasks[t].err = "credentials"

\* C14: where a start() is the only one of its manager and has entered the
\* credential scope, the files of the manager are on disk exactly while
\* the start() waits for submit, and then they hold the certificate and
\* the key; in the polling loops, after the return and after a failure or
\* a cancellation neither file is present.
C14_FilesOnlyWhileSubmitting ==
    \A t \in Slots :
        (IsStart(t) /\ SoleStart(t) /\ Entered(t)) =>
            LET c == tasks[t].ctrl
            IN  /\ tasks[t].pc \in Polling \cup {"done", "failed", "cancelled"} =>
                       NoCredFile(c)
                /\ tasks[t].pc = "submit" =>
                    /\ Present(files, c) = CredPaths(c)
                    /\ files[cert_path(c)] = tls_cert(c)
                    /\ files[key_path(c)] = tls_key(c)
                /\ tasks[t].pc \in Polling \cup {"done", "failed", "cancelled", "submit"}

\* a start() that had created both files waits for the scheduler address
\* and neither file is on disk
C14_Witness ==
    \E t \in Slots :
        /\ IsStart(t) /\ SoleStart(t)
        /\ tasks[t].made = CredPaths(tasks[t].ctrl)
        /\ tasks[t].pc = "sleep2"
        /\ NoCredFile(tasks[t].ctrl)

\* ------------------------------------------------ start(), the second loop
\* C15: a start() examines the scheduler address only after a report with
\* state RUNNING; every examination after the first is preceded by a
\* report fetched since the one before (after k examinations that found
\* the address empty, k - 1 reports of the second loop have arrived, and a
\* k-th is in flight before the address is examined again); a report with
\* a terminal state fails the start() in the second loop as in the first.
C15_FreshReportPerAddressCheck ==
    \A t \in Slots :
        IsStart(t) =>
            /\ tasks[t].naddr = 0 => tasks[t].nreport2 = 0
            /\ tasks[t].naddr >= 1 =>
                /\ tasks[t].saw_running
                /\ tasks[t].nreport2 \in {tasks[t].naddr - 1, tasks[t].naddr}
                /\ tasks[t].nreport > tasks[t].nreport2
            /\ tasks[t].pc \in {"sleep2", "done"} =>
                   tasks[t].nreport2 = tasks[t].naddr - 1
            /\ tasks[t].pc = "poll2" => tasks[t].nreport2 = tasks[t].naddr
            /\ tasks[t].saw_terminal =>
                   tasks[t].pc = "failed" /\ tasks[t].err = "terminated"

\* an application reported RUNNING and then a terminal state while the
\* address was still empty: the start() failed on the report of its
\* second loop
C15_Witness ==
    \E t \in Slots :
        /\ IsStart(t) /\ tasks[t].saw_running /\ tasks[t].saw_terminal
        /\ tasks[t].naddr = 1 /\ tasks[t].nreport2 = 1
        /\ tasks[t].pc = "failed"
        /\ scheduler_address[tasks[t].ctrl] = ""

\* --------------------------- is_running() and stop() beside a start()
\* The resource manager calls an is_running() or a stop() has issued
Issued(fr) == fr.nkill + fr.nreport

\* A call that read an empty app_id has issued nothing and is over; a call
\* that issued a kill or a report named a non-empty id
C16_State ==
    \A t \in Slots :
        (IsStop(t) \/ IsIsRunning(t)) =>
            /\ tasks[t].app_id0 = EmptyStr =>
                /\ Issued(tasks[t]) = 0 /\ tasks[t].pc = "done"
                /\ tasks[t].arg = EmptyStr
            /\ Issued(tasks[t]) >= 1 =>
                /\ Issued(tasks[t]) = 1
                /\ tasks[t].arg # EmptyStr
                /\ tasks[t].app_id0 # EmptyStr

\* The step in which the call is issued names the app_id of that moment;
\* a step of a call that read an empty app_id leaves the other calls alone
C16_Step ==
    \A t \in Slots :
        /\ (tasks'[t].op \in {"stop", "is_running"}
              /\ Issued(tasks[t]) = 0 /\ Issued(tasks'[t]) = 1) =>
                /\ tasks'[t].arg = app_id[tasks'[t].ctrl]
                /\ app_id' = app_id
        /\ (tasks'[t].op \in {"stop", "is_running"} /\ StepOf(t)
              /\ tasks'[t].app_id0 = EmptyStr) =>
                /\ app_id' = app_id /\ napps' = napps
                /\ \A u \in Slots \ {t} : tasks'[u] = tasks[u]

\* C16: a stop() or is_running() that runs beside a start() acts on the
\* app_id it reads: one that reads it empty issues no resource manager
\* call, returns at once and leaves the start() where it was, and one that
\* reads it set issues one kill or report that names the app_id stored at
\* the moment of the call's issue.
C16_ActsOnAppIdRead == []C16_State /\ [][C16_Step]_vars

\* a stop() issued while a start() of the same manager is polling has
\* requested the kill of the id that start() submitted, and the start()
\* is still polling
C16_Witness ==
    \E t, u \in Slots :
        /\ u < t /\ IsStart(u) /\ IsStop(t)
        /\ tasks[t].ctrl = tasks[u].ctrl
        /\ tasks[u].pc \in Polling
        /\ tasks[t].nkill = 1
        /\ tasks[t].arg = tasks[u].submitted
        /\ tasks[t].arg = app_id[tasks[t].ctrl]

\* --------------------------------------------------- failed acquisition
\* The step in which the acquisition of start() t fails
AcquisitionFails(t) ==
    tasks[t].err # "credentials" /\ tasks'[t].err = "credentials"

\* C18: the step in which a credential acquisition fails removes only
\* files that this acquisition created: a file that was at the certificate
\* or the key path before the acquisition is still there after it.
C18_FailedCleanupKeepsOthers ==
    [][\A t \in Slots :
          AcquisitionFails(t) =>
              /\ (DOMAIN files \ DOMAIN files') \subseteq tasks'[t].made
              /\ tasks'[t].found \subseteq DOMAIN files']_vars

\* ------------------------------------------------- a report call raises
\* C20: a start() one of whose application-report calls raised has not
\* aborted: it is still in one of its two polling loops.
C20_ReportErrorKeepsPolling ==
    \A t \in Slots :
        (IsStart(t) /\ tasks[t].err = "report") => tasks[t].pc \in Polling

\* -------------------------------------------------- the scripted reports
\* C17 as stated: against the reports ACCEPTED, ACCEPTED, RUNNING, a
\* start() that returned at its second examination of the address has
\* issued exactly three application reports and returns the addresses.
C17_ThreeReportsTwoChecks ==
    \A t \in Slots :
        (IsStart(t) /\ tasks[t].pc = "done" /\ tasks[t].naddr = 2) =>
            /\ tasks[t].nreport = 3
            /\ tasks[t].ret = <<scheduler_address[tasks[t].ctrl],
                                dashboard_address[tasks[t].ctrl]>>

\* C17 (amended): against the reports ACCEPTED, ACCEPTED, RUNNING the
\* first loop of a start() ends with its third report; a start() that
\* returned at its second examination of the address has issued exactly
\* four application reports, three in the first loop and one, not terminal,
\* in the second, and returns the non-empty scheduler address and the
\* dashboard address the manager holds.
C17_FourReportsTwoChecks ==
    \A t \in Slots :
        IsStart(t) =>
            /\ tasks[t].naddr >= 1 =>
                   tasks[t].nreport - tasks[t].nreport2 = Len(ScenarioA)
            /\ (tasks[t].pc = "done" /\ tasks[t].naddr = 2) =>
                /\ tasks[t].nreport = 4 /\ tasks[t].nreport2 = 1
                /\ ~tasks[t].saw_terminal
                /\ tasks[t].ret[1] # ""
                /\ tasks[t].ret = <<scheduler_address[tasks[t].ctrl],
                                    dashboard_address[tasks[t].ctrl]>>

\* a start() returned both addresses at its second examination
C17_Witness ==
    \E t \in Slots :
        /\ IsStart(t) /\ tasks[t].pc = "done" /\ tasks[t].naddr = 2
        /\ tasks[t].nreport = 4
        /\ tasks[t].ret = <<"tls://scheduler", "http://dashboard">>

\* ------------------------------------------------------------ termination
\* A report that is not terminal arrives at start() t
NonTerminalAnswer(t) ==
    \E state \in States \ RMFinal :
        StartReport1(t, state) \/ StartReport2(t, state)

Submitted(t) == IsStart(t) /\ tasks[t].submitted # EmptyStr
Ended(t) == tasks[t].pc \in {"done", "failed"}
AddressKnown(t) == IsStart(t) /\ ~AddressEmpty(tasks[t].ctrl)

\* The application of start() t stays terminal from some point on, or it
\* reports RUNNING to t and the scheduler address becomes non-empty
Settles(t) ==
    \/ <>[][~NonTerminalAnswer(t)]_vars
    \/ <>(tasks[t].saw_running) /\ <>AddressKnown(t)

\* C19: under fair scheduling of the timers and of the report calls, a
\* start() whose submit returned and which is not cancelled ends, by
\* returning or by raising, provided its application stays terminal from
\* some point on or reports RUNNING to it and the scheduler address
\* becomes non-empty.
C19_StartTerminates ==
    \A t \in Slots :
        (Settles(t) /\ [](tasks[t].pc # "cancelled")) =>
            (Submitted(t) ~> Ended(t))

\* a start() returned after more polls than its frame counts: it waited in
\* the second loop although all its counted reports were of the first
C19_Witness ==
    \E t \in Slots :
        /\ IsStart(t) /\ tasks[t].pc = "done"
        /\ tasks[t].nreport = MaxPolls /\ tasks[t].nreport2 = 0
        /\ tasks[t].naddr = 2

====
